---- MODULE Spec2Model ----
(***************************************************************************)
(* Model of the OPC UA <-> MQTT bridge                                     *)
(* ("OPC-UA (BiDirectional - With MQTT).py").                              *)
(*                                                                         *)
(* Three execution contexts are modelled: the main thread (start(), the    *)
(* keep-alive loop, stop()), the MQTT network-loop thread (on_connect,     *)
(* on_message, on_disconnect) and the OPC UA notification context          *)
(* (datachange_notification).  Calls into the two client libraries are     *)
(* environment steps that either return or raise.                          *)
(***************************************************************************)
EXTENDS Integers, Sequences, FiniteSets, TLC

(***************************************************************************)
(* Bounds of the model.                                                    *)
(***************************************************************************)
\* How many entries of NODES_SPEC (taken in declaration order) are configured.
NumNodes == 2
\* How many MQTT messages the broker delivers when only messages arrive.
MaxMsgs == 2
\* How many notifications the server sends when only notifications arrive.
MaxNotifs == 2
\* How many messages, and how many notifications, arrive when both do.
MaxEach == 1
\* How many CONNACKs (on_connect callbacks) the broker sends.
MaxConnects == 1
MaxSessions == 3
\* How many command lines the user of the standalone client types before
\* leaving.
MaxLines == 2

(***************************************************************************)
(* Configuration (USER CONFIG section).                                    *)
(***************************************************************************)
MQTT_ROOT == "imhotep"
MQTT_RETAIN == FALSE

\* NODES_SPEC in declaration order: friendly name, NodeId string (namespace
\* index and string identifier), Python type.
NODES_SPEC ==
  << [name |-> "AcknFault",    ns |-> "3", s |-> "\"DB_OP\".\"AcknFault\"",    type |-> "bool"],
     [name |-> "ActNo",        ns |-> "3", s |-> "\"DB_OP\".\"ActNo\"",        type |-> "int"],
     [name |-> "JogLeft",      ns |-> "3", s |-> "\"DB_OP\".\"JogLeft\"",      type |-> "bool"],
     [name |-> "JogRight",     ns |-> "3", s |-> "\"DB_OP\".\"JogRight\"",     type |-> "bool"],
     [name |-> "OperationOFF", ns |-> "3", s |-> "\"DB_OP\".\"OperationOFF\"", type |-> "bool"],
     [name |-> "OperationON",  ns |-> "3", s |-> "\"DB_OP\".\"OperationON\"",  type |-> "bool"],
     [name |-> "SetpNo",       ns |-> "3", s |-> "\"DB_OP\".\"SetpNo\"",       type |-> "int"],
     [name |-> "S1",           ns |-> "3", s |-> "\"B_Bay1\"",                 type |-> "bool"],
     [name |-> "S2",           ns |-> "3", s |-> "\"B_Bay2\"",                 type |-> "bool"],
     [name |-> "S3",           ns |-> "3", s |-> "\"B_Bay3\"",                 type |-> "bool"],
     [name |-> "LB",           ns |-> "3", s |-> "\"B_LB\"",                   type |-> "bool"],
     [name |-> "B1",           ns |-> "3", s |-> "\"S_Bay1\"",                 type |-> "bool"],
     [name |-> "B2",           ns |-> "3", s |-> "\"S_Bay2\"",                 type |-> "bool"],
     [name |-> "B3",           ns |-> "3", s |-> "\"S_Bay3\"",                 type |-> "bool"],
     [name |-> "B_LB",         ns |-> "3", s |-> "\"S_BayLB\"",                type |-> "bool"],
     [name |-> "P_Bay1",       ns |-> "3", s |-> "\"P_Bay1\"",                 type |-> "bool"],
     [name |-> "P_Bay2",       ns |-> "3", s |-> "\"P_Bay2\"",                 type |-> "bool"],
     [name |-> "P_Bay3",       ns |-> "3", s |-> "\"P_Bay3\"",                 type |-> "bool"],
     [name |-> "P_BayLB",      ns |-> "3", s |-> "\"P_BayLB\"",                type |-> "bool"],
     [name |-> "K_Right",      ns |-> "3", s |-> "\"K_Right\"",                type |-> "bool"],
     [name |-> "K_Left",       ns |-> "3", s |-> "\"K_Left\"",                 type |-> "bool"] >>

\* The configured part of NODES_SPEC: NODES_SPEC.items() in iteration order.
Items == SubSeq(NODES_SPEC, 1, NumNodes)
Names == {Items[i].name : i \in 1..Len(Items)}
SpecOf(name) == CHOOSE e \in {Items[i] : i \in 1..Len(Items)} : e.name = name
\* nid, expected_type = NODES_SPEC[name]
NidOf(name) == "ns=" \o SpecOf(name).ns \o ";s=" \o SpecOf(name).s
TypeOf(name) == SpecOf(name).type

(***************************************************************************)
(* Values.  A Python value is a tagged record so that values of different  *)
(* Python types can sit in one log.                                        *)
(***************************************************************************)
BoolV(b) == [t |-> "bool", v |-> b]
IntV(n)  == [t |-> "int",  v |-> n]
StrV(cs) == [t |-> "str",  v |-> cs]
NoneV    == [t |-> "none", v |-> 0]

(***************************************************************************)
(* Text.  A Python str is a sequence of one-character strings, so that     *)
(* strip(), lower() and int() are computed character by character.         *)
(***************************************************************************)
UPPER == <<"A","B","C","D","E","F","G","H","I","J","K","L","M",
           "N","O","P","Q","R","S","T","U","V","W","X","Y","Z">>
LOWER == <<"a","b","c","d","e","f","g","h","i","j","k","l","m",
           "n","o","p","q","r","s","t","u","v","w","x","y","z">>
DIGITS == <<"0","1","2","3","4","5","6","7","8","9">>
WHITESPACE == {" ", "\t", "\n", "\r"}

\* str.lower(), one character
LowerChar(c) ==
  IF \E i \in 1..Len(UPPER) : UPPER[i] = c
  THEN LOWER[CHOOSE i \in 1..Len(UPPER) : UPPER[i] = c]
  ELSE c
\* str.lower()
PyLower(cs) == [i \in 1..Len(cs) |-> LowerChar(cs[i])]

RECURSIVE LStrip(_)
LStrip(cs) ==
  IF cs # <<>> /\ Head(cs) \in WHITESPACE THEN LStrip(Tail(cs)) ELSE cs
RECURSIVE RStrip(_)
RStrip(cs) ==
  IF cs # <<>> /\ cs[Len(cs)] \in WHITESPACE
  THEN RStrip(SubSeq(cs, 1, Len(cs) - 1)) ELSE cs
\* str.strip()
PyStrip(cs) == RStrip(LStrip(cs))

IsDigit(c) == \E i \in 1..Len(DIGITS) : DIGITS[i] = c
DigitVal(c) == (CHOOSE i \in 1..Len(DIGITS) : DIGITS[i] = c) - 1

\* The decimal digits of a natural number, as str() prints them.
RECURSIVE NatToChars(_)
NatToChars(n) ==
  IF n < 10 THEN <<DIGITS[n + 1]>>
  ELSE Append(NatToChars(n \div 10), DIGITS[(n % 10) + 1])

\* str(x) for the Python values that reach the codec
PyStr(x) ==
  CASE x.t = "str"  -> x.v
    [] x.t = "bool" -> IF x.v THEN <<"T","r","u","e">> ELSE <<"F","a","l","s","e">>
    [] x.t = "int"  -> IF x.v < 0 THEN <<"-">> \o NatToChars(-x.v) ELSE NatToChars(x.v)
    [] x.t = "none" -> <<"N","o","n","e">>

\* The digit groups int() accepts after the sign: digits, with single
\* underscores allowed between digits.
RECURSIVE IsIntBody(_, _)
IsIntBody(cs, prevDigit) ==
  IF cs = <<>> THEN prevDigit
  ELSE IF IsDigit(Head(cs)) THEN IsIntBody(Tail(cs), TRUE)
  ELSE IF Head(cs) = "_" THEN prevDigit /\ IsIntBody(Tail(cs), FALSE)
  ELSE FALSE
RECURSIVE IntBodyVal(_, _)
IntBodyVal(cs, acc) ==
  IF cs = <<>> THEN acc
  ELSE IF Head(cs) = "_" THEN IntBodyVal(Tail(cs), acc)
  ELSE IntBodyVal(Tail(cs), 10 * acc + DigitVal(Head(cs)))

\* A faulty variant of PyInt: the sign is read and dropped.
PyInt_unsigned(cs) ==
  LET s    == PyStrip(cs)
      body == IF s # <<>> /\ Head(s) \in {"+", "-"} THEN Tail(s) ELSE s
  IN  IF IsIntBody(body, FALSE)
      THEN [ok |-> TRUE, value |-> IntV(IntBodyVal(body, 0))]
      ELSE [ok |-> FALSE, value |-> NoneV]
\* int(text): [ok |-> FALSE] stands for ValueError.
PyInt(cs) ==
  LET s    == PyStrip(cs)
      neg  == s # <<>> /\ Head(s) = "-"
      body == IF s # <<>> /\ Head(s) \in {"+", "-"} THEN Tail(s) ELSE s
  IN  IF IsIntBody(body, FALSE)
      THEN [ok |-> TRUE,
            value |-> IntV(IF neg THEN -IntBodyVal(body, 0) ELSE IntBodyVal(body, 0))]
      ELSE [ok |-> FALSE, value |-> NoneV]

(***************************************************************************)
(* HELPERS section of the bridge.                                          *)
(***************************************************************************)
TRUE_TOKENS  == { <<"1">>, <<"t","r","u","e">>, <<"t">>, <<"o","n">>,
                  <<"y","e","s">>, <<"y">> }
FALSE_TOKENS == { <<"0">>, <<"f","a","l","s","e">>, <<"f">>, <<"o","f","f">>,
                  <<"n","o">>, <<"n">> }

\* A faulty variant of to_bool: the text is compared without .lower().
to_bool_exact_case(x) ==
  LET s == PyStrip(PyStr(x))
  IN  IF s \in TRUE_TOKENS THEN [ok |-> TRUE, value |-> BoolV(TRUE)]
      ELSE IF s \in FALSE_TOKENS THEN [ok |-> TRUE, value |-> BoolV(FALSE)]
      ELSE [ok |-> FALSE, value |-> NoneV]
\* to_bool(s): [ok |-> FALSE] stands for ValueError.
to_bool(x) ==
  LET s == PyLower(PyStrip(PyStr(x)))
  IN  IF s \in TRUE_TOKENS THEN [ok |-> TRUE, value |-> BoolV(TRUE)]
      ELSE IF s \in FALSE_TOKENS THEN [ok |-> TRUE, value |-> BoolV(FALSE)]
      ELSE [ok |-> FALSE, value |-> NoneV]

\* bool(value) and int(value) as variant_for applies them
PyBool(x) ==
  CASE x.t = "bool" -> x.v
    [] x.t = "int"  -> x.v # 0
    [] x.t = "str"  -> x.v # <<>>
    [] x.t = "none" -> FALSE
PyIntOf(x) ==
  CASE x.t = "int"  -> x.v
    [] x.t = "bool" -> IF x.v THEN 1 ELSE 0

\* variant_for(value, py_type): the value the Variant carries and its
\* VariantType.
variant_for(value, py_type) ==
  IF py_type = "bool" THEN [Value |-> BoolV(PyBool(value)), VariantType |-> "Boolean"]
  ELSE IF py_type = "int" THEN [Value |-> IntV(PyIntOf(value)), VariantType |-> "Int32"]
  ELSE [Value |-> value, VariantType |-> "guess"]

\* An MQTT payload is its bytes (one character per byte; "<ff>" is a byte
\* that is not valid UTF-8) together with what json.loads returns for its
\* text: json.isObjectWithValue says that the text is a JSON object with a
\* "value" member, json.value is that member.
BAD_BYTE == "<ff>"
\* payload.decode("utf-8", errors="ignore")
DecodeUtf8Ignore(bytes) == SelectSeq(bytes, LAMBDA b : b # BAD_BYTE)

\* parse_incoming_payload(payload, expected_type)
parse_incoming_payload(payload, expected_type) ==
  LET text == PyStrip(DecodeUtf8Ignore(payload.bytes))
      raw  == IF payload.json.isObjectWithValue THEN payload.json.value
              ELSE StrV(text)
  IN  IF expected_type = "bool" THEN to_bool(raw)
      ELSE IF expected_type = "int" THEN PyInt(PyStrip(PyStr(raw)))
      ELSE [ok |-> TRUE, value |-> raw]

(***************************************************************************)
(* OPCUAMQTTBridge.__init__: the topic maps.                               *)
(***************************************************************************)
\* f"{root}/opc/tele/{name}" and f"{root}/opc/cmd/{name}"
telemetry_topic(root, name) == root \o "/opc/tele/" \o name
\* A faulty variant of control_topic: the name is left out of the topic.
control_topic_without_name(root, name) == root \o "/opc/cmd/"
control_topic(root, name) == root \o "/opc/cmd/" \o name
TelemetryTopic(name) == telemetry_topic(MQTT_ROOT, name)
ControlTopic(name)   == control_topic(MQTT_ROOT, name)
STATUS_TOPIC         == MQTT_ROOT \o "/status"

\* The three dict comprehensions of __init__ for a root and the keys of
\* NODES_SPEC in insertion order.  In {v: k for k, v in d.items()} a later
\* key replaces an earlier one with the same value.
telemetry_topics_for(root, keys) ==
  [name \in {keys[i] : i \in 1..Len(keys)} |-> telemetry_topic(root, name)]
control_topics_for(root, keys) ==
  [name \in {keys[i] : i \in 1..Len(keys)} |-> control_topic(root, name)]
topic_to_name_for(root, keys) ==
  LET control == control_topics_for(root, keys) IN
  [t \in {control[n] : n \in DOMAIN control} |->
     LET last == CHOOSE i \in 1..Len(keys) :
                   /\ control[keys[i]] = t
                   /\ \A j \in 1..Len(keys) : control[keys[j]] = t => j <= i
     IN  keys[last]]

\* NODES_SPEC.keys()
ItemNames == [i \in 1..Len(Items) |-> Items[i].name]
telemetry_topics == telemetry_topics_for(MQTT_ROOT, ItemNames)
control_topics   == control_topics_for(MQTT_ROOT, ItemNames)
\* A faulty variant of topic_to_name: every control topic leads to the first name.
topic_to_name_first ==
  [t \in {control_topics[n] : n \in Names} |-> Items[1].name]
topic_to_name == topic_to_name_for(MQTT_ROOT, ItemNames)

(***************************************************************************)
(* Inputs of the environment.                                              *)
(***************************************************************************)
NO_OBJECT == [isObjectWithValue |-> FALSE, value |-> NoneV]
\* true
P_true  == [bytes |-> <<"t","r","u","e">>, json |-> NO_OBJECT]
\* {"value": 5}
P_json5 == [bytes |-> <<"{","\"","v","a","l","u","e","\"",":"," ","5","}">>,
            json  |-> [isObjectWithValue |-> TRUE, value |-> IntV(5)]]
Payloads == {P_true, P_json5}

\* What the broker delivers: each payload on each control topic, and one
\* message on a topic that is not a control topic.
OTHER_TOPIC == MQTT_ROOT \o "/other"
InboundMessages ==
  {[topic |-> control_topics[n], payload |-> p] : n \in Names, p \in Payloads}
    \cup {[topic |-> OTHER_TOPIC, payload |-> P_true]}

\* The value node.get_value() returns when it returns.
CurrentValue(type) == IF type = "bool" THEN BoolV(TRUE) ELSE IntV(5)
\* A DataValue: a value and its two timestamps, each None or a datetime
\* (seconds of a fixed day).
DataValue(val, srv, src) ==
  [Value |-> val, ServerTimestamp |-> srv, SourceTimestamp |-> src]
\* The DataValues the server notifies for a variable of each type: a value
\* with neither timestamp, with the source timestamp alone, with the server
\* timestamp alone, and with both (the source timestamp being the later one).
DataValues(type) ==
  IF type = "bool"
  THEN { DataValue(BoolV(TRUE),  NoneV,   NoneV),
         DataValue(BoolV(FALSE), NoneV,   IntV(2)),
         DataValue(BoolV(FALSE), IntV(3), NoneV),
         DataValue(BoolV(TRUE),  IntV(1), IntV(2)) }
  ELSE { DataValue(IntV(5), NoneV,   NoneV),
         DataValue(IntV(0), NoneV,   IntV(2)),
         DataValue(IntV(0), IntV(3), NoneV),
         DataValue(IntV(7), IntV(1), IntV(2)) }
\* datetime.isoformat()
isoformat(ts) == StrV(<<"2025-01-01T00:00:0">> \o NatToChars(ts.v))
\* f"<read error: {e}>"
READ_ERROR == StrV(<<"<read error: ", "e", ">">>)

(***************************************************************************)
(* State.                                                                  *)
(***************************************************************************)
VARIABLES
  pc,              \* main thread: where it is in __main__ / start() / stop()
  idx,             \* main thread: loop index of the for loop it is in
  fatal,           \* main thread: start() raised ("Fatal error")
  stopRaised,      \* main thread: stop() raised (caught in __main__)
  nodes,           \* self.nodes: the friendly names, in insertion order
  nodeid_to_name,  \* self.nodeid_to_name: a set of [key, value] entries
  subscription,    \* self.subscription is not None
  sub_handles,     \* self.sub_handles
  opcConnected,    \* OPC UA session is open
  monitored,       \* server side: handles of the live monitored items
  mq,              \* MQTT connection: "new", "tcp", "session", "refused", "closed"
  mqttLoop,        \* the loop_forever thread is running
  mqttSubs,        \* history: client.subscribe calls
  connects,        \* number of on_connect callbacks so far
  mpc,             \* MQTT thread: "idle", or "writing" inside on_message
  opc,             \* OPC UA notification context: "idle" or "publishing"
  delivered,       \* history: messages handed to on_message
  notified,        \* history: notifications handed to datachange_notification
  writes,          \* history: node.set_value calls
  published,       \* history: mqtt.publish calls
  diag,            \* history: failure diagnostics printed by on_message
  escaped,         \* callbacks an exception propagated out of
  startLog,        \* history: the calls start() made, and whether each returned
  stopLog,         \* history: the calls stop() made
  calc,            \* a helper function under evaluation: its arguments and result
  cli              \* the standalone client (BiDirectional - Without MQTT), when it is run

mainVars == <<pc, idx, fatal, stopRaised>>
opcVars  == <<nodes, nodeid_to_name, subscription, sub_handles, opcConnected, monitored>>
mqttVars == <<mq, mqttLoop, mqttSubs, connects>>
cbVars   == <<mpc, opc, delivered, notified, writes, diag, escaped>>
vars == <<pc, idx, fatal, stopRaised, nodes, nodeid_to_name, subscription,
          sub_handles, opcConnected, monitored, mq, mqttLoop, mqttSubs,
          connects, mpc, opc, delivered, notified, writes, published, diag,
          escaped, startLog, stopLog, calc, cli>>

\* The standalone client is not the script that was started.
ClientOff ==
  [pc |-> "off", idx |-> 1, connected |-> FALSE, nodes |-> <<>>, sub |-> FALSE,
   handles |-> <<>>, monitored |-> {}, parts |-> <<>>, cmds |-> 0, log |-> <<>>]

\* No helper function is under evaluation.
NoCall == [fn |-> "none", arg |-> <<>>, step |-> 0, out |-> <<>>]

\* The state after bridge = OPCUAMQTTBridge()
Init ==
  /\ pc = "mqtt_connect"
  /\ idx = 1
  /\ fatal = FALSE
  /\ stopRaised = FALSE
  /\ nodes = <<>>
  /\ nodeid_to_name = {}
  /\ subscription = FALSE
  /\ sub_handles = <<>>
  /\ opcConnected = FALSE
  /\ monitored = {}
  /\ mq = "new"
  /\ mqttLoop = FALSE
  /\ mqttSubs = <<>>
  /\ connects = 0
  /\ mpc = "idle"
  /\ opc = "idle"
  /\ delivered = <<>>
  /\ notified = <<>>
  /\ writes = <<>>
  /\ published = <<>>
  /\ diag = <<>>
  /\ escaped = {}
  /\ startLog = <<>>
  /\ stopLog = <<>>
  /\ calc = NoCall
  /\ cli = ClientOff

\* json.dumps of a telemetry payload; "initial" is present (and true) only in
\* the snapshot.
TelemetryPayload(name, val, ts_iso, isInitial) ==
  [name |-> name, value |-> val, ts |-> ts_iso, initial |-> isInitial]
StatusPayload(state) == [state |-> state]
\* The arguments of one mqtt.publish call.
PublishArgs(topic, payload, retain) ==
  [topic |-> topic, payload |-> payload, qos |-> 1, retain |-> retain]
\* An entry of the history of publish calls: the arguments, the code that made
\* the call and, for a notification, which one (for the snapshot, which
\* iteration).
PublishCall(args, by, ref) ==
  [topic |-> args.topic, payload |-> args.payload, qos |-> args.qos,
   retain |-> args.retain, by |-> by, ref |-> ref]
\* An entry of the history of the calls of start().
StartCall(call, arg, ok) == [call |-> call, arg |-> arg, ok |-> ok]

(***************************************************************************)
(* Main thread: __main__, start(), publish_initial_snapshot(), stop().     *)
(***************************************************************************)
\* A faulty variant of StartSteps: the snapshot is published before the subscriptions
\* are created.
StartSteps_snapshot_first ==
  <<"mqtt_connect", "loop_start", "opc_connect", "resolve", "create_sub",
    "snapshot", "subscribe">>
\* The statements of start(), in the order they are written.
StartSteps ==
  <<"mqtt_connect", "loop_start", "opc_connect", "resolve", "create_sub",
    "subscribe", "snapshot">>
\* The statement after a statement of start(); after the last one start()
\* returns and __main__ enters its keep-alive loop.
StepAfter(step) ==
  LET i == CHOOSE j \in 1..Len(StartSteps) : StartSteps[j] = step
  IN  IF i = Len(StartSteps) THEN "running" ELSE StartSteps[i + 1]

\* Where stop() begins: "if self.subscription:" guards the unsubscribe loop
\* and the delete.
StopEntry ==
  IF subscription
  THEN IF sub_handles # <<>> THEN "stop_unsub" ELSE "stop_delete"
  ELSE "stop_opc_disconnect"

\* An exception leaves start(): __main__ prints "Fatal error" and its
\* finally clause calls bridge.stop().
StartRaises ==
  /\ fatal' = TRUE
  /\ pc' = StopEntry
  /\ idx' = 1

\* self.mqtt.connect(MQTT_BROKER, MQTT_PORT, keepalive=60)
MqttConnect ==
  /\ pc = "mqtt_connect"
  /\ \E ok \in BOOLEAN :
       /\ startLog' = Append(startLog, StartCall("mqtt_connect", "", ok))
       /\ IF ok
          THEN /\ mq' = "tcp"
               /\ pc' = StepAfter(pc)
               /\ UNCHANGED <<idx, fatal>>
          ELSE /\ StartRaises
               /\ UNCHANGED mq
  /\ UNCHANGED <<stopRaised, opcVars, mqttLoop, mqttSubs, connects, cbVars,
                 published, stopLog>>
  /\ UNCHANGED <<calc, cli>>

\* threading.Thread(target=self.mqtt.loop_forever, daemon=True).start()
LoopStart ==
  /\ pc = "loop_start"
  /\ startLog' = Append(startLog, StartCall("loop_start", "", TRUE))
  /\ mqttLoop' = TRUE
  /\ pc' = StepAfter(pc)
  /\ UNCHANGED <<idx, fatal, stopRaised, opcVars, mq, mqttSubs, connects,
                 cbVars, published, stopLog>>
  /\ UNCHANGED <<calc, cli>>

\* self.opc_client.connect()
OpcConnect ==
  /\ pc = "opc_connect"
  /\ \E ok \in BOOLEAN :
       /\ startLog' = Append(startLog, StartCall("opc_connect", "", ok))
       /\ IF ok
          THEN /\ opcConnected' = TRUE
               /\ pc' = StepAfter(pc)
               /\ idx' = 1
               /\ UNCHANGED fatal
          ELSE /\ StartRaises
               /\ UNCHANGED opcConnected
  /\ UNCHANGED <<stopRaised, nodes, nodeid_to_name, subscription, sub_handles,
                 monitored, mqttVars, cbVars, published, stopLog>>
  /\ UNCHANGED <<calc, cli>>

\* node.nodeid.to_string() of the Node that get_node(nid) returns for
\* NODES_SPEC[name]
NodeIdString(name) == NidOf(name)

\* What the for loops of start() do after an iteration whose calls returned:
\* the next iteration, or the statement after the loop.
LoopStep(len) ==
  IF idx >= len
  THEN pc' = StepAfter(pc) /\ idx' = 1
  ELSE pc' = pc /\ idx' = idx + 1

\* One iteration of "for name, (nid, _) in NODES_SPEC.items()": get_node,
\* self.nodes[name] = node, self.nodeid_to_name[...] = name.  Nothing in
\* start() catches a raise of get_node.
Resolve ==
  /\ pc = "resolve"
  /\ LET name == Items[idx].name IN
     \E ok \in BOOLEAN :
       /\ startLog' = Append(startLog, StartCall("get_node", name, ok))
       /\ IF ok
          THEN /\ nodes' = Append(nodes, name)
               /\ nodeid_to_name' =
                    {e \in nodeid_to_name : e.key # NodeIdString(name)}
                      \cup {[key |-> NodeIdString(name), value |-> name]}
               /\ LoopStep(Len(Items))
               /\ UNCHANGED fatal
          ELSE /\ StartRaises
               /\ UNCHANGED <<nodes, nodeid_to_name>>
  /\ UNCHANGED <<stopRaised, subscription, sub_handles, opcConnected,
                 monitored, mqttVars, cbVars, published, stopLog>>
  /\ UNCHANGED <<calc, cli>>

\* self.subscription = self.opc_client.create_subscription(SUB_PUB_INTERVAL_MS, handler)
CreateSubscription ==
  /\ pc = "create_sub"
  /\ \E ok \in BOOLEAN :
       /\ startLog' = Append(startLog, StartCall("create_subscription", "", ok))
       /\ IF ok
          THEN /\ subscription' = TRUE
               /\ pc' = StepAfter(pc)
               /\ idx' = 1
               /\ UNCHANGED fatal
          ELSE /\ StartRaises
               /\ UNCHANGED subscription
  /\ UNCHANGED <<stopRaised, nodes, nodeid_to_name, sub_handles, opcConnected,
                 monitored, mqttVars, cbVars, published, stopLog>>
  /\ UNCHANGED <<calc, cli>>

\* One iteration of "for name, node in self.nodes.items()":
\* h = self.subscription.subscribe_data_change(node); self.sub_handles.append(h).
\* The handle of the idx-th monitored item is idx.  Nothing in start() catches
\* a raise of subscribe_data_change.
Subscribe ==
  /\ pc = "subscribe"
  /\ \E ok \in BOOLEAN :
       /\ startLog' = Append(startLog,
                             StartCall("subscribe_data_change", nodes[idx], ok))
       /\ IF ok
          THEN /\ sub_handles' = Append(sub_handles, idx)
               /\ monitored' = monitored \cup {idx}
               /\ LoopStep(Len(nodes))
               /\ UNCHANGED fatal
          ELSE /\ StartRaises
               /\ UNCHANGED <<sub_handles, monitored>>
  /\ UNCHANGED <<stopRaised, nodes, nodeid_to_name, subscription, opcConnected,
                 mqttVars, cbVars, published, stopLog>>
  /\ UNCHANGED <<calc, cli>>

\* The body of the loop of publish_initial_snapshot() for one variable:
\* val is what node.get_value() returned, or the placeholder when it raised.
snapshot_value(name, readOk) ==
  IF readOk THEN CurrentValue(TypeOf(name)) ELSE READ_ERROR
\* A faulty variant of snapshot_continues: a read that raises ends the loop.
snapshot_continues_read_fatal(readOk, pubOk) == readOk /\ pubOk
\* Whether the loop goes on after this variable: the read is inside
\* try/except, the publish is not.
snapshot_continues(readOk, pubOk) == pubOk
\* The publish calls of the iteration for one variable.
snapshot_publishes(name, val) ==
  IF name \in DOMAIN telemetry_topics
  THEN << PublishArgs(telemetry_topics[name],
                      TelemetryPayload(name, val, NoneV, TRUE), MQTT_RETAIN) >>
  ELSE << >>

\* One iteration of the loop of publish_initial_snapshot().
Snapshot ==
  /\ pc = "snapshot"
  /\ LET name == nodes[idx] IN
     \E readOk \in BOOLEAN, pubOk \in BOOLEAN :
       LET calls == snapshot_publishes(name, snapshot_value(name, readOk)) IN
       /\ published' =
            published \o [i \in 1..Len(calls) |-> PublishCall(calls[i], "snapshot", idx)]
       /\ startLog' = startLog \o
            << StartCall("get_value", name, readOk),
               StartCall("snapshot_publish", name, pubOk) >>
       /\ IF snapshot_continues(readOk, pubOk)
          THEN LoopStep(Len(nodes)) /\ UNCHANGED fatal
          ELSE StartRaises
  /\ UNCHANGED <<stopRaised, opcVars, mqttVars, cbVars, stopLog>>
  /\ UNCHANGED <<calc, cli>>

\* "while True: time.sleep(1)" ends with KeyboardInterrupt; the finally
\* clause calls bridge.stop().
Interrupt ==
  /\ pc = "running"
  /\ pc' = StopEntry
  /\ idx' = 1
  /\ UNCHANGED <<fatal, stopRaised, opcVars, mqttVars, cbVars, published,
                 startLog, stopLog>>
  /\ UNCHANGED <<calc, cli>>

\* An entry of the history of the calls of stop().
StopCall(call, handle) == [call |-> call, handle |-> handle]

\* One iteration of "for h in self.sub_handles": self.subscription.unsubscribe(h)
\* inside its own try/except-pass.
StopUnsubscribe ==
  /\ pc = "stop_unsub"
  /\ LET h == sub_handles[idx] IN
     \E ok \in BOOLEAN :
       /\ stopLog' = Append(stopLog, StopCall("unsubscribe", h))
       /\ monitored' = IF ok THEN monitored \ {h} ELSE monitored
  /\ IF idx = Len(sub_handles)
     THEN pc' = "stop_delete" /\ idx' = 1
     ELSE pc' = "stop_unsub" /\ idx' = idx + 1
  /\ UNCHANGED <<fatal, stopRaised, nodes, nodeid_to_name, subscription,
                 sub_handles, opcConnected, mqttVars, cbVars, published, startLog>>
  /\ UNCHANGED <<calc, cli>>

\* self.subscription.delete() inside its own try/except-pass
StopDelete ==
  /\ pc = "stop_delete"
  /\ \E ok \in BOOLEAN :
       monitored' = IF ok THEN {} ELSE monitored
  /\ stopLog' = Append(stopLog, StopCall("delete", 0))
  /\ pc' = "stop_opc_disconnect"
  /\ UNCHANGED <<idx, fatal, stopRaised, nodes, nodeid_to_name, subscription,
                 sub_handles, opcConnected, mqttVars, cbVars, published, startLog>>
  /\ UNCHANGED <<calc, cli>>

\* self.opc_client.disconnect(): not inside an except clause of stop(), so a
\* raise runs the finally clause and then leaves stop().
StopOpcDisconnect ==
  /\ pc = "stop_opc_disconnect"
  /\ \E ok \in BOOLEAN :
       IF ok
       THEN /\ opcConnected' = FALSE
            /\ monitored' = {}
            /\ UNCHANGED stopRaised
       ELSE /\ stopRaised' = TRUE
            /\ UNCHANGED <<opcConnected, monitored>>
  /\ stopLog' = Append(stopLog, StopCall("opc_disconnect", 0))
  /\ pc' = "stop_publish"
  /\ UNCHANGED <<idx, fatal, nodes, nodeid_to_name, subscription, sub_handles,
                 mqttVars, cbVars, published, startLog>>
  /\ UNCHANGED <<calc, cli>>

\* Where stop() goes after self.mqtt.publish(...offline...): the publish and
\* self.mqtt.disconnect() share one try, so a raise of the publish goes to
\* "except Exception: pass", past the disconnect.
AfterOfflinePublish(ok) == IF ok THEN "stop_mqtt_disconnect" ELSE "done"

\* finally: try: self.mqtt.publish(status, offline, qos=1, retain=True)
StopPublish ==
  /\ pc = "stop_publish"
  /\ published' = Append(published,
       PublishCall(PublishArgs(STATUS_TOPIC, StatusPayload("offline"), TRUE),
                   "stop", 0))
  /\ stopLog' = Append(stopLog, StopCall("publish_offline", 0))
  /\ \E ok \in BOOLEAN : pc' = AfterOfflinePublish(ok)
  /\ UNCHANGED <<idx, fatal, stopRaised, opcVars, mqttVars, cbVars, startLog>>
  /\ UNCHANGED <<calc, cli>>

\* self.mqtt.disconnect(), in the same try as the publish
StopMqttDisconnect ==
  /\ pc = "stop_mqtt_disconnect"
  /\ \E ok \in BOOLEAN :
       IF ok
       THEN mq' = "closed" /\ mqttLoop' = FALSE
       ELSE UNCHANGED <<mq, mqttLoop>>
  /\ stopLog' = Append(stopLog, StopCall("mqtt_disconnect", 0))
  /\ pc' = "done"
  /\ UNCHANGED <<idx, fatal, stopRaised, opcVars, mqttSubs, connects, cbVars,
                 published, startLog>>
  /\ UNCHANGED <<calc, cli>>

(***************************************************************************)
(* MQTT network-loop thread: on_connect, on_disconnect, on_message.        *)
(***************************************************************************)
REASON_CODES == {"Success", "Not authorized"}

\* The loop thread runs one callback at a time.
MqttThreadFree == mpc = "idle"

\* The calls on_connect makes, in order: client.subscribe(subs) when subs is
\* not empty, then client.publish of the online status.  The reason code is
\* printed and not looked at.
ConnectSubs == {[topic |-> control_topics[n], qos |-> 1] : n \in DOMAIN control_topics}
\* A faulty variant of on_connect: the control topics are subscribed on the first
\* connect only.
on_connect_subscribes_once(reason_code) ==
  (IF ConnectSubs # {} /\ mqttSubs = <<>>
   THEN <<[call |-> "subscribe", subs |-> ConnectSubs]>> ELSE <<>>)
  \o <<[call |-> "publish",
        args |-> PublishArgs(STATUS_TOPIC, StatusPayload("online"), TRUE)]>>
\* on_connect(client, userdata, flags, reason_code, properties)
on_connect(reason_code) ==
  (IF ConnectSubs # {}
   THEN <<[call |-> "subscribe", subs |-> ConnectSubs]>> ELSE <<>>)
  \o <<[call |-> "publish",
        args |-> PublishArgs(STATUS_TOPIC, StatusPayload("online"), TRUE)]>>

\* The positions of the calls of one kind in a sequence of calls.
CallsOf(calls, kind) ==
  SelectSeq([i \in 1..Len(calls) |-> i], LAMBDA i : calls[i].call = kind)

\* The broker answers the CONNECT packet, and the loop thread runs on_connect.
\* An entry of mqttSubs says what was subscribed and how many publish calls
\* had been made before.
OnConnect ==
  /\ mqttLoop
  /\ mq = "tcp"
  /\ MqttThreadFree
  /\ \E reason_code \in REASON_CODES :
       LET calls == on_connect(reason_code)
           sub   == CallsOf(calls, "subscribe")
           pub   == CallsOf(calls, "publish")
       IN
       /\ mq' = IF reason_code = "Success" THEN "session" ELSE "refused"
       /\ mqttSubs' = mqttSubs \o
            [k \in 1..Len(sub) |->
               [subs |-> calls[sub[k]].subs,
                published |-> Len(published)
                  + Cardinality({j \in 1..Len(pub) : pub[j] < sub[k]})]]
       /\ published' = published \o
            [k \in 1..Len(pub) |-> PublishCall(calls[pub[k]].args, "on_connect", 0)]
  /\ connects' = connects + 1
  /\ UNCHANGED <<mainVars, opcVars, mqttLoop, cbVars, startLog, stopLog>>
  /\ UNCHANGED <<calc, cli>>

\* on_disconnect(...): prints; loop_forever then reconnects.
OnDisconnect ==
  /\ mqttLoop
  /\ mq \in {"session", "refused"}
  /\ MqttThreadFree
  /\ mq' = "tcp"
  /\ UNCHANGED <<mainVars, opcVars, mqttLoop, mqttSubs, connects, cbVars,
                 published, startLog, stopLog>>
  /\ UNCHANGED <<calc, cli>>

\* self.nodes.get(name) is not None
NodeReady(name) == \E i \in 1..Len(nodes) : nodes[i] = name

\* value = parse_incoming_payload(msg.payload, expected_type), tabulated over
\* the payloads the broker delivers and the declared types.
value_of_payload ==
  [payload \in Payloads |->
     [expected_type \in {"bool", "int"} |->
        parse_incoming_payload(payload, expected_type)]]

\* What a run of on_message does: the diagnostics it prints, the
\* node.set_value calls it makes, and whether an exception leaves it.
Handled(diags, calls, raises) ==
  [diags |-> diags, calls |-> calls, raises |-> raises]

\* A faulty variant of try_write: what parse_incoming_payload raises is not caught.
try_write_uncaught(name, payload) ==
  LET expected_type == TypeOf(name)
      parsed == value_of_payload[payload][expected_type]
  IN  IF ~parsed.ok
      THEN Handled(<<>>, <<>>, TRUE)
      ELSE Handled(<<>>,
                   <<[node |-> NodeIdString(name),
                      dv |-> variant_for(parsed.value, expected_type)]>>,
                   FALSE)
\* The try block of on_message up to the call of node.set_value(dv);
\* "except Exception" catches what parse_incoming_payload raises.
try_write(name, payload) ==
  LET expected_type == TypeOf(name)
      parsed == value_of_payload[payload][expected_type]
  IN  IF ~parsed.ok
      THEN Handled(<<[what |-> "Write error", name |-> name]>>, <<>>, FALSE)
      ELSE Handled(<<>>,
                   <<[node |-> NodeIdString(name),
                      dv |-> variant_for(parsed.value, expected_type)]>>,
                   FALSE)

\* A faulty variant of on_message: the node handle is used without the None test.
on_message_unchecked(topic, payload) ==
  IF topic \notin DOMAIN topic_to_name
  THEN Handled(<<>>, <<>>, FALSE)
  ELSE try_write(topic_to_name[topic], payload)
\* A faulty variant of on_message: a topic that is no control topic gets a diagnostic.
on_message_warns(topic, payload) ==
  IF topic \notin DOMAIN topic_to_name
  THEN Handled(<<[what |-> "unknown topic", name |-> topic]>>, <<>>, FALSE)
  ELSE LET name == topic_to_name[topic] IN
       IF ~NodeReady(name)
       THEN Handled(<<[what |-> "node not ready", name |-> name]>>, <<>>, FALSE)
       ELSE try_write(name, payload)
\* on_message(client, userdata, msg) up to the call of node.set_value(dv)
on_message(topic, payload) ==
  IF topic \notin DOMAIN topic_to_name
  THEN Handled(<<>>, <<>>, FALSE)
  ELSE LET name == topic_to_name[topic] IN
       IF ~NodeReady(name)
       THEN Handled(<<[what |-> "node not ready", name |-> name]>>, <<>>, FALSE)
       ELSE try_write(name, payload)

\* on_message runs for a message the broker delivers, up to the point where
\* node.set_value(dv) has been called and has not returned yet.
OnMessage ==
  /\ mqttLoop
  /\ mq = "session"
  /\ MqttThreadFree
  /\ \E msg \in InboundMessages :
       LET i == Len(delivered) + 1
           r == on_message(msg.topic, msg.payload)
       IN
       /\ delivered' = Append(delivered,
            [topic |-> msg.topic, payload |-> msg.payload,
             ready |-> \E n \in Names : ControlTopic(n) = msg.topic /\ NodeReady(n)])
       /\ diag' = diag \o
            [k \in 1..Len(r.diags) |->
               [msg |-> i, what |-> r.diags[k].what, name |-> r.diags[k].name]]
       /\ writes' = writes \o
            [k \in 1..Len(r.calls) |->
               [msg |-> i, node |-> r.calls[k].node, dv |-> r.calls[k].dv]]
       /\ mpc' = IF r.calls # <<>> THEN "writing" ELSE "idle"
       /\ escaped' = IF r.raises THEN escaped \cup {"on_message"} ELSE escaped
  /\ UNCHANGED <<mainVars, opcVars, mqttVars, opc, notified, published,
                 startLog, stopLog>>
  /\ UNCHANGED <<calc, cli>>

\* node.set_value(dv) returns, or raises into "except Exception as e".
OnMessageWriteReturns ==
  /\ mpc = "writing"
  /\ \E ok \in BOOLEAN :
       diag' = IF ok THEN diag
               ELSE Append(diag,
                      [msg |-> writes[Len(writes)].msg, what |-> "Write error",
                       name |-> topic_to_name[delivered[writes[Len(writes)].msg].topic]])
  /\ mpc' = "idle"
  /\ UNCHANGED <<mainVars, opcVars, mqttVars, opc, delivered, notified, writes,
                 published, escaped, startLog, stopLog>>
  /\ UNCHANGED <<calc, cli>>

(***************************************************************************)
(* OPC UA notification context: _SubHandler.datachange_notification.       *)
(***************************************************************************)
\* A faulty variant of NotifyContextFree: notifications are dispatched on the thread
\* that runs on_message.
NotifyContextFree_shared_thread == opc = "idle" /\ mpc = "idle"
\* The notification context runs one callback at a time.
NotifyContextFree == opc = "idle"

\* A faulty variant of NodeidToNameGet: the map is searched for the friendly name.
NodeidToNameGet_by_name(key, default) ==
  IF \E e \in nodeid_to_name : e.value = key
  THEN (CHOOSE e \in nodeid_to_name : e.value = key).value
  ELSE default
\* self.outer.nodeid_to_name.get(key, default)
NodeidToNameGet(key, default) ==
  IF \E e \in nodeid_to_name : e.key = key
  THEN (CHOOSE e \in nodeid_to_name : e.key = key).value
  ELSE default

\* ts = ServerTimestamp or SourceTimestamp; ts_iso = ts.isoformat() if ts else None
TsIso_source_first(ServerTimestamp, SourceTimestamp) ==
  LET ts == IF SourceTimestamp # NoneV THEN SourceTimestamp ELSE ServerTimestamp
  IN  IF ts # NoneV THEN isoformat(ts) ELSE NoneV

TsIso(ServerTimestamp, SourceTimestamp) ==
  LET ts == IF ServerTimestamp # NoneV THEN ServerTimestamp ELSE SourceTimestamp
  IN  IF ts # NoneV THEN isoformat(ts) ELSE NoneV

\* datachange_notification(node, val, data): the publish calls it makes, for
\* the node whose nodeid.to_string() is key.
datachange_notification(key, val, data) ==
  LET name   == NodeidToNameGet(key, "Node(" \o key \o ")")
      ts_iso == TsIso(data.ServerTimestamp, data.SourceTimestamp)
  IN  IF name \in DOMAIN telemetry_topics
      THEN << PublishArgs(telemetry_topics[name],
                          TelemetryPayload(name, val, ts_iso, FALSE),
                          MQTT_RETAIN) >>
      ELSE << >>

\* datachange_notification runs for a notification of the monitored item with
\* handle h, up to the point where mqtt.publish has been called and has not
\* returned yet.
DataChange ==
  /\ opcConnected
  /\ NotifyContextFree
  /\ \E h \in monitored :
       \E data \in DataValues(TypeOf(nodes[h])) :
         LET key   == NodeIdString(nodes[h])
             calls == datachange_notification(key, data.Value, data)
         IN
         /\ notified' = Append(notified,
              [handle |-> h, node |-> key, val |-> data.Value,
               ServerTimestamp |-> data.ServerTimestamp,
               SourceTimestamp |-> data.SourceTimestamp])
         /\ published' = published \o
              [k \in 1..Len(calls) |->
                 PublishCall(calls[k], "datachange_notification", Len(notified) + 1)]
         /\ opc' = IF calls # <<>> THEN "publishing" ELSE "idle"
  /\ UNCHANGED <<mainVars, opcVars, mqttVars, mpc, delivered, writes, diag,
                 escaped, startLog, stopLog>>
  /\ UNCHANGED <<calc, cli>>

\* mqtt.publish returns, or raises: nothing in datachange_notification
\* catches it, so the exception leaves the callback.
publish_raise_escapes == TRUE
DataChangePublishReturns ==
  /\ opc = "publishing"
  /\ \E ok \in BOOLEAN :
       escaped' = IF ~ok /\ publish_raise_escapes
                  THEN escaped \cup {"datachange_notification"}
                  ELSE escaped
  /\ opc' = "idle"
  /\ UNCHANGED <<mainVars, opcVars, mqttVars, mpc, delivered, notified, writes,
                 published, diag, startLog, stopLog>>
  /\ UNCHANGED <<calc, cli>>

(***************************************************************************)
(* The bridge.                                                             *)
(***************************************************************************)
\* The main thread
Main ==
  \/ MqttConnect
  \/ LoopStart
  \/ OpcConnect
  \/ Resolve
  \/ CreateSubscription
  \/ Subscribe
  \/ Snapshot
  \/ Interrupt
  \/ StopUnsubscribe
  \/ StopDelete
  \/ StopOpcDisconnect
  \/ StopPublish
  \/ StopMqttDisconnect

\* The environment sends at most m messages and n notifications, and the
\* broker answers at most n connects.
MsgBudget(m) == Len(delivered) < m
ConnectBudget(n) == connects < n
NotifBudget(n) == Len(notified) < n

\* __main__ has not returned from bridge.stop(): the threads that run the
\* callbacks end with the process.
ProcessAlive == pc # "done"

\* Both directions carry traffic.
Next ==
  \/ Main
  \/ (ProcessAlive /\ ConnectBudget(MaxConnects) /\ OnConnect)
  \/ (ProcessAlive /\ OnDisconnect)
  \/ (ProcessAlive /\ MsgBudget(MaxEach) /\ OnMessage)
  \/ (ProcessAlive /\ OnMessageWriteReturns)
  \/ (ProcessAlive /\ NotifBudget(MaxEach) /\ DataChange)
  \/ (ProcessAlive /\ DataChangePublishReturns)
Spec == Init /\ [][Next]_vars

\* No traffic: start-up and shutdown, with the MQTT connection callbacks.
NextLife ==
  \/ Main
  \/ (ProcessAlive /\ ConnectBudget(MaxConnects) /\ OnConnect)
  \/ (ProcessAlive /\ OnDisconnect)
SpecLife == Init /\ [][NextLife]_vars

\* Only the broker sends: control messages, no change notifications.
NextMsg ==
  \/ Main
  \/ (ProcessAlive /\ ConnectBudget(MaxConnects) /\ OnConnect)
  \/ (ProcessAlive /\ OnDisconnect)
  \/ (ProcessAlive /\ MsgBudget(MaxMsgs) /\ OnMessage)
  \/ (ProcessAlive /\ OnMessageWriteReturns)
SpecMsg == Init /\ [][NextMsg]_vars

\* Only the OPC UA server sends: change notifications, no control messages.
NextNotif ==
  \/ Main
  \/ (ProcessAlive /\ NotifBudget(MaxNotifs) /\ DataChange)
  \/ (ProcessAlive /\ DataChangePublishReturns)
SpecNotif == Init /\ [][NextNotif]_vars

\* The lifecycle with a connection that is lost and made again.
NextConn ==
  \/ Main
  \/ (ProcessAlive /\ ConnectBudget(MaxSessions) /\ OnConnect)
  \/ (ProcessAlive /\ OnDisconnect)
SpecConn == Init /\ [][NextConn]_vars

(***************************************************************************)
(* The helper functions on their own: a control payload through            *)
(* parse_incoming_payload and variant_for, and the topic maps of __init__  *)
(* for a root and a set of names.                                          *)
(***************************************************************************)
\* json.dumps(x) for the scalars of a payload
json_dumps(x) ==
  CASE x.t = "bool" -> IF x.v THEN <<"t","r","u","e">> ELSE <<"f","a","l","s","e">>
    [] x.t = "int"  -> PyStr(x)
    [] x.t = "str"  -> <<"\"">> \o x.v \o <<"\"">>
    [] x.t = "none" -> <<"n","u","l","l">>

\* A payload that is bare text which json.loads does not read as an object,
\* and a payload that is the JSON object {"value": <value>}.
BarePayload(text) == [bytes |-> text, json |-> NO_OBJECT]
JsonValuePayload(value) ==
  [bytes |-> <<"{","\"","v","a","l","u","e","\"",":"," ">> \o json_dumps(value) \o <<"}">>,
   json  |-> [isObjectWithValue |-> TRUE, value |-> value]]

UpperChar(c) ==
  IF \E i \in 1..Len(LOWER) : LOWER[i] = c
  THEN UPPER[CHOOSE i \in 1..Len(LOWER) : LOWER[i] = c]
  ELSE c
\* Every spelling of a word in upper-case and lower-case letters.
RECURSIVE LetterCases(_)
LetterCases(word) ==
  IF word = <<>> THEN {<<>>}
  ELSE {<<c>> \o rest : c \in {Head(word), UpperChar(Head(word))},
                        rest \in LetterCases(Tail(word))}

\* Texts sent to a Boolean variable: every spelling of the twelve accepted
\* words, and texts that are none of them.
OTHER_TEXTS == { <<>>,
                 <<"2">>,
                 <<"-","1">>,
                 <<"0","0">>,
                 <<"0","1">>,
                 <<"1","0">>,
                 <<"1",".","0">>,
                 <<"t","r","u">>,
                 <<"t","r","u","e","e">>,
                 <<"y","e","s","s">>,
                 <<"y","e">>,
                 <<"o","f">>,
                 <<"o","n","n">>,
                 <<"o">>,
                 <<"m","a","y","b","e">>,
                 <<"n","u","l","l">>,
                 <<"n","o","n","e">>,
                 <<"t","r","e","u">>,
                 <<"e","n","a","b","l","e","d">> }
BoolTexts ==
  UNION {LetterCases(w) : w \in TRUE_TOKENS \cup FALSE_TOKENS} \cup OTHER_TEXTS
\* Values of the "value" member that are not strings.
JsonScalars == {BoolV(TRUE), BoolV(FALSE), IntV(1), IntV(0), IntV(2), NoneV}
\* Texts sent to an Int32 variable: the decimal text of integers of the
\* signed 32-bit range, and texts that are no integer.
INT_TEXTS == { <<"0">>,
               <<"1">>,
               <<"-","1">>,
               <<"5">>,
               <<"9">>,
               <<"1","0">>,
               <<"-","1","0">>,
               <<"4","2">>,
               <<"1","0","0">>,
               <<"-","1","2","8">>,
               <<"2","5","5">>,
               <<"3","2","7","6","7">>,
               <<"-","3","2","7","6","8">>,
               <<"6","5","5","3","5">>,
               <<"1","0","0","0","0","0","0">>,
               <<"2","1","4","7","4","8","3","6","4","7">>,
               <<"-","2","1","4","7","4","8","3","6","4","7">> }
NON_INT_TEXTS == { <<"a","b","c">>, <<"5",".","0">>, <<>>, <<"t","r","u","e">>, <<"1","e","3">>, <<"-","-","5">> }

BoolPayloads ==
  {BarePayload(t) : t \in BoolTexts}
    \cup {JsonValuePayload(StrV(t)) : t \in BoolTexts}
    \cup {JsonValuePayload(v) : v \in JsonScalars}
IntPayloads ==
  {BarePayload(t) : t \in INT_TEXTS \cup NON_INT_TEXTS}
    \cup {JsonValuePayload(StrV(t)) : t \in INT_TEXTS}

\* A call of a helper: its arguments, how far it has run, its result.
Call(fn, arg) == [fn |-> fn, arg |-> arg, step |-> 0, out |-> <<>>]
PayloadCalls ==
  {Call("payload", [payload |-> p, expected_type |-> "bool"]) : p \in BoolPayloads}
    \cup {Call("payload", [payload |-> p, expected_type |-> "int"]) : p \in IntPayloads}

\* Roots and key sequences for the topic maps: the configured ones, and ones
\* with slashes and empty names in them.
ROOTS == {"imhotep", "", "plant/opc/cmd", "imhotep/opc/tele"}
KEYS  == {"S1", "S2", "s1", "", "S1/opc/cmd/S1", "opc/cmd/S1"}
KeySeqs ==
  {ItemNames} \cup
  {k \in KEYS \X KEYS : k[1] # k[2]} \cup
  {k \in {"S1", ""} \X KEYS \X KEYS : k[1] # k[2] /\ k[1] # k[3] /\ k[2] # k[3]}
TopicCalls ==
  {Call("topics", [root |-> r, keys |-> k]) : r \in ROOTS, k \in KeySeqs}

bridgeVars == <<mainVars, opcVars, mqttVars, cbVars, published, startLog, stopLog>>

\* A helper is about to be called on one of the inputs.
InitHelpers ==
  /\ pc = "mqtt_connect" /\ idx = 1 /\ fatal = FALSE /\ stopRaised = FALSE
  /\ nodes = <<>> /\ nodeid_to_name = {} /\ subscription = FALSE
  /\ sub_handles = <<>> /\ opcConnected = FALSE /\ monitored = {}
  /\ mq = "new" /\ mqttLoop = FALSE /\ mqttSubs = <<>> /\ connects = 0
  /\ mpc = "idle" /\ opc = "idle" /\ delivered = <<>> /\ notified = <<>>
  /\ writes = <<>> /\ published = <<>> /\ diag = <<>> /\ escaped = {}
  /\ startLog = <<>> /\ stopLog = <<>>
  /\ calc \in PayloadCalls \cup TopicCalls
  /\ cli = ClientOff

\* value = parse_incoming_payload(payload, expected_type)
Decode ==
  /\ calc.fn = "payload" /\ calc.step = 0
  /\ calc' = [calc EXCEPT
       !.step = 1,
       !.out = [parsed |-> parse_incoming_payload(calc.arg.payload,
                                                  calc.arg.expected_type),
                text   |-> <<>>]]
  /\ UNCHANGED <<bridgeVars, cli>>

\* dv.Value = variant_for(value, expected_type), and the text json.dumps
\* writes for the value the Variant carries.
Encode ==
  /\ calc.fn = "payload" /\ calc.step = 1 /\ calc.out.parsed.ok
  /\ calc' = [calc EXCEPT
       !.step = 2,
       !.out.text = json_dumps(variant_for(calc.out.parsed.value,
                                           calc.arg.expected_type).Value)]
  /\ UNCHANGED <<bridgeVars, cli>>

\* The topic maps __init__ builds.
BuildTopicMaps ==
  /\ calc.fn = "topics" /\ calc.step = 0
  /\ calc' = [calc EXCEPT
       !.step = 1,
       !.out = [telemetry_topics |-> telemetry_topics_for(calc.arg.root, calc.arg.keys),
                control_topics   |-> control_topics_for(calc.arg.root, calc.arg.keys),
                topic_to_name    |-> topic_to_name_for(calc.arg.root, calc.arg.keys)]]
  /\ UNCHANGED <<bridgeVars, cli>>

NextHelpers ==
  \/ Decode
  \/ Encode
  \/ BuildTopicMaps
SpecHelpers == InitHelpers /\ [][NextHelpers]_vars

(***************************************************************************)
(* The standalone client: main() of "OPC-UA (BiDirectional - Without       *)
(* MQTT).py".  cli.log is the history of the calls it makes on the OPC UA  *)
(* library and of the failures it prints.                                  *)
(***************************************************************************)
\* NODES_SPEC of the standalone client begins with the same entries.
ClientItems == Items
ClientNames == {ClientItems[i].name : i \in 1..Len(ClientItems)}
\* The friendly names as the user types them.
NAME_TEXT ==
  [AcknFault |-> <<"A","c","k","n","F","a","u","l","t">>, ActNo |-> <<"A","c","t","N","o">>,
   JogLeft |-> <<"J","o","g","L","e","f","t">>, JogRight |-> <<"J","o","g","R","i","g","h","t">>]

\* An entry of cli.log.
ClientCall(call, arg, ok) == [call |-> call, arg |-> arg, ok |-> ok, value |-> NoneV]
ClientWrite(name, dv, ok) == [call |-> "set_value", arg |-> name, ok |-> ok, value |-> dv]

\* main() is about to run.
ClientStart == [ClientOff EXCEPT !.pc = "connect"]

\* client.connect(): outside every try, a raise leaves main().
ClientConnect ==
  /\ cli.pc = "connect"
  /\ \E ok \in BOOLEAN :
       cli' = [cli EXCEPT !.log = Append(@, ClientCall("connect", "", ok)),
                          !.connected = ok,
                          !.pc = IF ok THEN "get_node" ELSE "done",
                          !.idx = 1]
  /\ UNCHANGED <<bridgeVars, calc>>

\* nodes[name] = client.get_node(nid): outside every try.
ClientGetNode ==
  /\ cli.pc = "get_node"
  /\ LET name == ClientItems[cli.idx].name IN
     \E ok \in BOOLEAN :
       cli' = [cli EXCEPT
                 !.log = Append(@, ClientCall("get_node", name, ok)),
                 !.nodes = IF ok THEN Append(@, name) ELSE @,
                 !.pc = IF ~ok THEN "done"
                        ELSE IF cli.idx >= Len(ClientItems) THEN "create_sub"
                        ELSE "get_node",
                 !.idx = IF ok /\ cli.idx < Len(ClientItems) THEN cli.idx + 1 ELSE 1]
  /\ UNCHANGED <<bridgeVars, calc>>

\* sub = client.create_subscription(500, handler): outside every try.
ClientCreateSubscription ==
  /\ cli.pc = "create_sub"
  /\ \E ok \in BOOLEAN :
       cli' = [cli EXCEPT
                 !.log = Append(@, ClientCall("create_subscription", "", ok)),
                 !.sub = ok,
                 !.pc = IF ok THEN "subscribe" ELSE "done",
                 !.idx = 1]
  /\ UNCHANGED <<bridgeVars, calc>>

\* Where the finally clause of main() begins.
CleanupEntry(handles) ==
  IF handles # <<>> THEN "cleanup_unsub" ELSE "cleanup_delete"

\* h = sub.subscribe_data_change(node); handles.append(h), inside the try
\* whose finally clause is the cleanup.  The handle of the idx-th item is idx.
ClientSubscribe ==
  /\ cli.pc = "subscribe"
  /\ \E ok \in BOOLEAN :
       cli' = [cli EXCEPT
                 !.log = Append(@, ClientCall("subscribe_data_change",
                                              cli.nodes[cli.idx], ok)),
                 !.handles = IF ok THEN Append(@, cli.idx) ELSE @,
                 !.monitored = IF ok THEN @ \cup {cli.idx} ELSE @,
                 !.pc = IF ~ok THEN CleanupEntry(cli.handles)
                        ELSE IF cli.idx >= Len(cli.nodes) THEN "command"
                        ELSE "subscribe",
                 !.idx = IF ok /\ cli.idx < Len(cli.nodes) THEN cli.idx + 1 ELSE 1]
  /\ UNCHANGED <<bridgeVars, calc>>

\* The words of a command line: cmd.split().
W_set == <<"s","e","t">>
W_read == <<"r","e","a","d">>
W_all == <<"a","l","l">>
CLIENT_LINES ==
  { <<>>, <<<<"h","e","l","p">>>>, <<<<"f","r","o","b">>>>,
    <<W_read>>, <<<<"R","E","A","D">>, <<"A","L","L">>>>, <<W_read, <<"A","c","t","N","o">>>>,
    <<W_read, <<"N","o","p","e">>>>, <<W_read, <<"a","c","t","n","o">>>>,
    <<W_set, <<"A","c","t","N","o">>>>,
    <<W_set, <<"N","o","p","e">>, <<"1">>>>, <<W_set, <<"a","c","t","n","o">>, <<"5">>>>,
    <<W_set, <<"A","c","t","N","o">>, <<"5">>>>, <<W_set, <<"A","c","t","N","o">>, <<"-","3">>>>,
    <<W_set, <<"A","c","t","N","o">>, <<"a","b","c">>>>, <<W_set, <<"A","c","t","N","o">>, <<"1",".","5">>>>,
    <<W_set, <<"A","c","t","N","o">>, <<"1">>, <<"0">>>>,
    <<<<"S","e","t">>, <<"A","c","k","n","F","a","u","l","t">>, <<"O","N">>>>, <<W_set, <<"A","c","k","n","F","a","u","l","t">>, <<"n","o">>>>,
    <<W_set, <<"A","c","k","n","F","a","u","l","t">>, <<"2">>>>, <<W_set, <<"A","c","k","n","F","a","u","l","t">>, <<"o","n">>, <<"o","f","f">>>> }
EXIT_LINES == { <<<<"e","x","i","t">>>>, <<<<"Q","U","I","T">>>> }

\* " ".join(words)
RECURSIVE JoinWords(_)
JoinWords(words) ==
  IF words = <<>> THEN <<>>
  ELSE IF Len(words) = 1 THEN words[1]
  ELSE words[1] \o <<" ">> \o JoinWords(Tail(words))

\* target in nodes, and the name it is
KnownTarget(target, known) == \E n \in known : NAME_TEXT[n] = target
TargetName(target, known) == CHOOSE n \in known : NAME_TEXT[n] = target

\* variant_for(value, py_type) of the standalone client
client_variant_for(value, py_type) ==
  IF py_type = "bool" THEN [Value |-> value, VariantType |-> "Boolean"]
  ELSE IF py_type = "int" THEN [Value |-> IntV(PyIntOf(value)), VariantType |-> "Int32"]
  ELSE [Value |-> value, VariantType |-> "guess"]

\* What is printed after node.get_value(): the value, or "<read error: ...>"
\* from the except clause.
read_report(ok) ==
  <<ClientCall("print", IF ok THEN "value" ELSE "read error", TRUE)>>

\* A faulty variant of write_report: a write that raised is not reported.
write_report_only_success(ok) ==
  IF ok THEN <<ClientCall("print", "Wrote", TRUE)>> ELSE <<>>

\* What is printed after nodes[target].set_value(dv): "Wrote ...", or
\* "Write error: ..." from the except clause.
write_report(ok) ==
  <<ClientCall("print", IF ok THEN "Wrote" ELSE "Write error", TRUE)>>

\* "for name, node in nodes.items()" of read all: each get_value in its own
\* try/except.
RECURSIVE read_all(_, _)
read_all(nodeSeq, oks) ==
  IF nodeSeq = <<>> THEN <<>>
  ELSE <<ClientCall("get_value", Head(nodeSeq), oks[Head(nodeSeq)])>>
         \o read_report(oks[Head(nodeSeq)])
         \o read_all(Tail(nodeSeq), oks)

\* The branch "read": the get_value calls and what is printed.
\* oks[name] says whether the server answers the call for that node.
client_read(parts, nodeSeq, oks) ==
  LET known == {nodeSeq[i] : i \in 1..Len(nodeSeq)} IN
  IF Len(parts) < 2 THEN <<ClientCall("print", "Usage: read", TRUE)>>
  ELSE IF PyLower(parts[2]) = W_all THEN read_all(nodeSeq, oks)
  ELSE IF ~KnownTarget(parts[2], known)
  THEN <<ClientCall("print", "Unknown node", TRUE)>>
  ELSE LET name == TargetName(parts[2], known)
       IN  <<ClientCall("get_value", name, oks[name])>> \o read_report(oks[name])

\* The branch "set": the parse, the set_value call when it is made, and what
\* is printed.
client_set(parts, nodeSeq, oks) ==
  LET known == {nodeSeq[i] : i \in 1..Len(nodeSeq)} IN
  IF Len(parts) < 3 THEN <<ClientCall("print", "Usage: set", TRUE)>>
  ELSE IF ~KnownTarget(parts[2], known)
  THEN <<ClientCall("print", "Unknown node", TRUE)>>
  ELSE LET name == TargetName(parts[2], known)
           expected_type == TypeOf(name)
           value_str == JoinWords(SubSeq(parts, 3, Len(parts)))
           parsed == IF expected_type = "bool" THEN to_bool(StrV(value_str))
                     ELSE PyInt(PyStrip(value_str))
       IN  IF ~parsed.ok THEN <<ClientCall("print", "Parse error", TRUE)>>
           ELSE <<ClientWrite(name, client_variant_for(parsed.value, expected_type),
                              oks[name])>>
                  \o write_report(oks[name])

\* One pass of the command loop for a line that does not leave it.
client_command(parts, nodeSeq, oks) ==
  IF parts = <<>> THEN <<>>
  ELSE IF PyLower(parts[1]) = <<"h","e","l","p">> THEN <<ClientCall("print", "Commands", TRUE)>>
  ELSE IF PyLower(parts[1]) = W_read THEN client_read(parts, nodeSeq, oks)
  ELSE IF PyLower(parts[1]) = W_set THEN client_set(parts, nodeSeq, oks)
  ELSE <<ClientCall("print", "Unknown command", TRUE)>>

ClientCommand ==
  /\ cli.pc = "command"
  /\ \E parts \in CLIENT_LINES : \E oks \in [ClientNames -> BOOLEAN] :
       cli' = [cli EXCEPT !.log = @ \o client_command(parts, cli.nodes, oks),
                          !.parts = parts,
                          !.cmds = @ + 1]
  /\ UNCHANGED <<bridgeVars, calc>>

\* input() raises EOFError or KeyboardInterrupt, or the line is exit or quit:
\* the loop ends and the finally clause runs.
ClientExit ==
  /\ cli.pc = "command"
  /\ \/ \E parts \in EXIT_LINES :
          /\ PyLower(parts[1]) \in {<<"e","x","i","t">>, <<"q","u","i","t">>}
          /\ cli' = [cli EXCEPT !.pc = CleanupEntry(cli.handles), !.idx = 1,
                                !.parts = parts]
     \/ \E raised \in {"EOFError", "KeyboardInterrupt"} :
          cli' = [cli EXCEPT !.pc = CleanupEntry(cli.handles), !.idx = 1]
  /\ UNCHANGED <<bridgeVars, calc>>

\* A faulty variant of after_unsubscribe: an unsubscribe that raises ends
\* the cleanup.
after_unsubscribe_raise_leaves(ok, i, n) ==
  IF ~ok THEN "done"
  ELSE IF i = n THEN "cleanup_delete" ELSE "cleanup_unsub"

\* Where the cleanup goes after sub.unsubscribe(h) for the i-th of n handles:
\* "except Exception: pass" makes a raise go on like a return.
after_unsubscribe(ok, i, n) ==
  IF i = n THEN "cleanup_delete" ELSE "cleanup_unsub"

\* One iteration of "for h in handles": sub.unsubscribe(h) in its own
\* try/except-pass.
ClientCleanupUnsubscribe ==
  /\ cli.pc = "cleanup_unsub"
  /\ LET h == cli.handles[cli.idx] IN
     \E ok \in BOOLEAN :
       cli' = [cli EXCEPT
                 !.log = Append(@, ClientCall("unsubscribe", cli.nodes[h], ok)),
                 !.monitored = IF ok THEN @ \ {h} ELSE @,
                 !.pc = after_unsubscribe(ok, cli.idx, Len(cli.handles)),
                 !.idx = IF cli.idx = Len(cli.handles) THEN 1 ELSE cli.idx + 1]
  /\ UNCHANGED <<bridgeVars, calc>>

\* sub.delete() in its own try/except-pass
ClientCleanupDelete ==
  /\ cli.pc = "cleanup_delete"
  /\ \E ok \in BOOLEAN :
       cli' = [cli EXCEPT !.log = Append(@, ClientCall("delete", "", ok)),
                          !.monitored = IF ok THEN {} ELSE @,
                          !.pc = "cleanup_disconnect"]
  /\ UNCHANGED <<bridgeVars, calc>>

\* client.disconnect(); a raise goes to the outer "except Exception: pass".
ClientCleanupDisconnect ==
  /\ cli.pc = "cleanup_disconnect"
  /\ \E ok \in BOOLEAN :
       cli' = [cli EXCEPT !.log = Append(@, ClientCall("disconnect", "", ok)),
                          !.connected = IF ok THEN FALSE ELSE @,
                          !.monitored = IF ok THEN {} ELSE @,
                          !.pc = "done"]
  /\ UNCHANGED <<bridgeVars, calc>>

\* The user types at most n lines that do not leave the loop.
LineBudget(n) == cli.cmds < n

\* The script is started: "if __name__ == '__main__': main()".
ClientRun ==
  /\ cli.pc = "off"
  /\ cli' = ClientStart
  /\ UNCHANGED <<bridgeVars, calc>>

\* The bridge is started, runs and is stopped; then the standalone client is
\* started, takes commands and leaves.
NextEither ==
  \/ Main
  \/ (pc = "done" /\ ClientRun)
  \/ ClientConnect
  \/ ClientGetNode
  \/ ClientCreateSubscription
  \/ ClientSubscribe
  \/ (LineBudget(MaxEach) /\ ClientCommand)
  \/ ClientExit
  \/ ClientCleanupUnsubscribe
  \/ ClientCleanupDelete
  \/ ClientCleanupDisconnect
SpecEither == Init /\ [][NextEither]_vars

\* The standalone client on its own, with several command lines.
NextClient ==
  \/ ClientRun
  \/ ClientConnect
  \/ ClientGetNode
  \/ ClientCreateSubscription
  \/ ClientSubscribe
  \/ (LineBudget(MaxLines) /\ ClientCommand)
  \/ ClientExit
  \/ ClientCleanupUnsubscribe
  \/ ClientCleanupDelete
  \/ ClientCleanupDisconnect
SpecClient == Init /\ [][NextClient]_vars

(***************************************************************************)
(* Properties.                                                             *)
(***************************************************************************)
\* The calls of stop() that are not the subscription delete.
StopCallsMade == SelectSeq(stopLog, LAMBDA e : e.call # "delete")
\* One unsubscribe per handle, then the three calls that follow.
StopCallsDue ==
  [i \in 1..Len(sub_handles) |-> StopCall("unsubscribe", sub_handles[i])]
    \o << StopCall("opc_disconnect", 0), StopCall("publish_offline", 0),
          StopCall("mqtt_disconnect", 0) >>

\* C1: when stop() has run to its end, it has attempted, in this order, an
\* unsubscribe for each monitored-item handle, the OPC UA disconnect, the
\* retained offline publish and the MQTT disconnect, whatever raised.
C1_StopAttemptsEveryStep ==
  pc = "done" => StopCallsMade = StopCallsDue

\* The variable n has a monitored item / a snapshot message.
IsSubscribed(n) == \E i \in 1..Len(sub_handles) : nodes[sub_handles[i]] = n
SnapshotIndexes(n) ==
  {k \in 1..Len(published) :
     published[k].by = "snapshot" /\ published[k].topic = "imhotep/opc/tele/" \o n}

\* C2: when resolving or subscribing one variable raised during start(),
\* start() is not aborted, and once it has returned every other variable is
\* resolved, subscribed and in the initial snapshot.
C2_StartSurvivesOneVariable ==
  \A j \in 1..Len(startLog) :
    (startLog[j].call \in {"get_node", "subscribe_data_change"} /\ ~startLog[j].ok)
      => /\ ~fatal
         /\ pc = "running" =>
              \A n \in Names \ {startLog[j].arg} :
                NodeReady(n) /\ IsSubscribed(n) /\ SnapshotIndexes(n) # {}

\* What the payloads of the model decode to, for each declared kind: "true"
\* is the Boolean true and no integer, {"value": 5} is the integer 5 and no
\* Boolean.
DecodesTo == { <<P_true, "bool", BoolV(TRUE)>>, <<P_json5, "int", IntV(5)>> }
Undecodable == { <<P_true, "int">>, <<P_json5, "bool">> }
VariantTypeOf(type) == IF type = "bool" THEN "Boolean" ELSE "Int32"
WriteIndexes(i) == {k \in 1..Len(writes) : writes[k].msg = i}
DiagIndexes(i) == {k \in 1..Len(diag) : diag[k].msg = i}

\* C3: a message on the control topic of N, N's node handle being resolved,
\* with a payload that decodes to v against N's kind, makes exactly one
\* set_value call, on N's node, carrying v in a Variant of N's type.
C3_OneWriteToTheNamedNode ==
  \A i \in 1..Len(delivered) : \A n \in Names : \A d \in DecodesTo :
    ( /\ delivered[i].topic = "imhotep/opc/cmd/" \o n
      /\ delivered[i].ready
      /\ delivered[i].payload = d[1]
      /\ TypeOf(n) = d[2] )
    => /\ Cardinality(WriteIndexes(i)) = 1
       /\ \A k \in WriteIndexes(i) :
            /\ writes[k].node = NidOf(n)
            /\ writes[k].dv = [Value |-> d[3], VariantType |-> VariantTypeOf(d[2])]

\* C3 witness: {"value": 5} on imhotep/opc/cmd/ActNo has written the Int32 5
\* to the node of ActNo, and the write has returned.
C3_Witness ==
  /\ mpc = "idle"
  /\ \E i \in 1..Len(delivered) :
       /\ delivered[i] = [topic |-> "imhotep/opc/cmd/ActNo", payload |-> P_json5,
                          ready |-> TRUE]
       /\ \E k \in 1..Len(writes) :
            writes[k] = [msg |-> i, node |-> "ns=3;s=\"DB_OP\".\"ActNo\"",
                         dv |-> [Value |-> IntV(5), VariantType |-> "Int32"]]

PublishIndexes(i) ==
  {k \in 1..Len(published) :
     published[k].by = "datachange_notification" /\ published[k].ref = i}

\* C4: a notification for the node of N with value v makes exactly one
\* publish call, on <root>/opc/tele/N, with name N and value v.
C4_OnePublishPerNotification ==
  \A i \in 1..Len(notified) : \A n \in Names :
    notified[i].node = NidOf(n)
    => /\ Cardinality(PublishIndexes(i)) = 1
       /\ \A k \in PublishIndexes(i) :
            /\ published[k].topic = "imhotep/opc/tele/" \o n
            /\ published[k].payload.name = n
            /\ published[k].payload.value = notified[i].val

\* C4 witness: a notification for AcknFault with value true has been
\* published on imhotep/opc/tele/AcknFault, and the publish has returned.
C4_Witness ==
  /\ opc = "idle"
  /\ \E i \in 1..Len(notified) :
       /\ notified[i].node = "ns=3;s=\"DB_OP\".\"AcknFault\""
       /\ notified[i].val = BoolV(TRUE)
       /\ \E k \in PublishIndexes(i) :
            /\ published[k].topic = "imhotep/opc/tele/AcknFault"
            /\ published[k].payload.name = "AcknFault"
            /\ published[k].payload.value = BoolV(TRUE)

\* C5: the step that handles a message whose topic is none of the control
\* topics changes nothing but the history of delivered messages: no write, no
\* publish, no diagnostic, no change of the bridge's state.
C5_OtherTopicIgnored ==
  [][ ( /\ Len(delivered') = Len(delivered) + 1
        /\ delivered'[Len(delivered')].topic
             \notin {"imhotep/opc/cmd/" \o n : n \in Names} )
      => UNCHANGED <<pc, idx, fatal, stopRaised, nodes, nodeid_to_name,
                     subscription, sub_handles, opcConnected, monitored, mq,
                     mqttLoop, mqttSubs, connects, mpc, opc, notified, writes,
                     published, diag, escaped, startLog, stopLog>> ]_vars

\* C5 witness: a message on imhotep/other has been handled.
C5_Witness ==
  \E i \in 1..Len(delivered) : delivered[i].topic = "imhotep/other"

\* C6: no exception leaves on_message or datachange_notification.
C6_NoCallbackRaises == escaped = {}

StartCallsDue ==
  << <<"mqtt_connect", "">>, <<"loop_start", "">>, <<"opc_connect", "">> >>
    \o [i \in 1..NumNodes |-> <<"get_node", NODES_SPEC[i].name>>]
    \o << <<"create_subscription", "">> >>
    \o [i \in 1..NumNodes |-> <<"subscribe_data_change", NODES_SPEC[i].name>>]
    \o [i \in 1..(2 * NumNodes) |->
          IF i % 2 = 1 THEN <<"get_value", NODES_SPEC[(i + 1) \div 2].name>>
          ELSE <<"snapshot_publish", NODES_SPEC[i \div 2].name>>]
StartCallsMade == [j \in 1..Len(startLog) |-> <<startLog[j].call, startLog[j].arg>>]

\* C8: start() makes its calls in the order MQTT connect, loop start, OPC UA
\* connect, node resolution, subscription, snapshot; monitored items exist
\* only after the OPC UA connect returned, and a snapshot message only after
\* every subscription was created.
C8_StartOrder ==
  /\ Len(StartCallsMade) <= Len(StartCallsDue)
  /\ StartCallsMade = SubSeq(StartCallsDue, 1, Len(StartCallsMade))
  /\ (sub_handles # <<>> \/ monitored # {})
       => \E j \in 1..Len(startLog) : startLog[j] = StartCall("opc_connect", "", TRUE)
  /\ (\E k \in 1..Len(published) : published[k].by = "snapshot")
       => Len(sub_handles) = NumNodes

\* C8 witness: start() has run to its end.
C8_Witness == pc = "running" /\ Len(startLog) = Len(StartCallsDue)

\* C9: every variable the snapshot loop has read has exactly one message with
\* initial=true on its telemetry topic, carrying the value read, or the
\* placeholder when the read raised; a read that raised is not what ends the
\* loop, and when the loop has ended every resolved variable has its message.
C9_SnapshotPerVariable ==
  /\ \A j \in 1..Len(startLog) :
       startLog[j].call = "get_value"
       => /\ Cardinality(SnapshotIndexes(startLog[j].arg)) = 1
          /\ \A k \in SnapshotIndexes(startLog[j].arg) :
               /\ published[k].payload.initial
               /\ published[k].payload.name = startLog[j].arg
               /\ published[k].payload.value =
                    IF startLog[j].ok THEN CurrentValue(TypeOf(startLog[j].arg))
                    ELSE READ_ERROR
  /\ \A j \in 1..Len(startLog) :
       ( /\ startLog[j].call = "get_value" /\ ~startLog[j].ok
         /\ startLog[j + 1].ok /\ Len(startLog) = j + 1 )
       => ~fatal
  /\ \A n \in Names :
       SnapshotIndexes(n) # {} => \E j \in 1..Len(startLog) :
                                    startLog[j] \in {StartCall("get_value", n, TRUE),
                                                     StartCall("get_value", n, FALSE)}
  /\ (\E j \in 1..Len(startLog) : startLog[j].call = "get_value") /\ ~fatal
       /\ pc # "snapshot"
       => \A i \in 1..Len(nodes) : Cardinality(SnapshotIndexes(nodes[i])) = 1

\* C9 witness: the read of the first variable raised, and start() has run to
\* its end with a snapshot message for the last variable.
C9_Witness ==
  /\ pc = "running"
  /\ \E j \in 1..Len(startLog) :
       startLog[j] = StartCall("get_value", NODES_SPEC[1].name, FALSE)
  /\ SnapshotIndexes(NODES_SPEC[NumNodes].name) # {}
  /\ \E k \in SnapshotIndexes(NODES_SPEC[1].name) :
       published[k].payload.value = READ_ERROR

\* C10: a message on the control topic of N whose payload does not decode
\* against N's kind makes no set_value call, gets a diagnostic, and no
\* exception leaves on_message.
C10_UndecodableDropped ==
  \A i \in 1..Len(delivered) : \A n \in Names :
    ( /\ delivered[i].topic = "imhotep/opc/cmd/" \o n
      /\ <<delivered[i].payload, TypeOf(n)>> \in Undecodable )
    => /\ WriteIndexes(i) = {}
       /\ Cardinality(DiagIndexes(i)) = 1
       /\ \A k \in DiagIndexes(i) : diag[k].name = n
       /\ "on_message" \notin escaped

\* C10 witness: "true" on the control topic of the Int32 variable ActNo, its
\* node resolved, was dropped with the "Write error" diagnostic.
C10_Witness ==
  \E i \in 1..Len(delivered) :
    /\ delivered[i] = [topic |-> "imhotep/opc/cmd/ActNo", payload |-> P_true,
                       ready |-> TRUE]
    /\ \E k \in DiagIndexes(i) : diag[k].what = "Write error"
    /\ WriteIndexes(i) = {}


\* The words that stand for true and for false.
WordsForTrue  == { <<"1">>, <<"t","r","u","e">>, <<"t">>, <<"o","n">>, <<"y","e","s">>, <<"y">> }
WordsForFalse == { <<"0">>, <<"f","a","l","s","e">>, <<"f">>, <<"o","f","f">>, <<"n","o">>, <<"n">> }
\* The text is the word, each letter in either case.
SpelledAs(text, word) ==
  /\ Len(text) = Len(word)
  /\ \A i \in 1..Len(word) : text[i] \in {word[i], UpperChar(word[i])}
\* The token a payload carries: the bare text, the string of the "value"
\* member, or the JSON spelling of a "value" member that is no string.
TokenOf(payload) ==
  IF ~payload.json.isObjectWithValue THEN payload.bytes
  ELSE IF payload.json.value.t = "str" THEN payload.json.value.v
  ELSE json_dumps(payload.json.value)

\* C11: decoding a payload for a Boolean variable gives true when its token
\* is one of 1, true, t, on, yes, y in any letter case, false when it is one
\* of 0, false, f, off, no, n in any letter case, and fails for any other
\* token, for a bare text payload and for the value member of a JSON object.
C11_BooleanTokens ==
  (calc.fn = "payload" /\ calc.arg.expected_type = "bool" /\ calc.step >= 1)
  => LET token  == TokenOf(calc.arg.payload)
         isTrue  == \E w \in WordsForTrue : SpelledAs(token, w)
         isFalse == \E w \in WordsForFalse : SpelledAs(token, w)
     IN  /\ isTrue => calc.out.parsed = [ok |-> TRUE, value |-> BoolV(TRUE)]
         /\ isFalse => calc.out.parsed = [ok |-> TRUE, value |-> BoolV(FALSE)]
         /\ (~isTrue /\ ~isFalse) => ~calc.out.parsed.ok

\* C11 witness: {"value": "oFF"} has been decoded to false.
C11_Witness ==
  /\ calc.fn = "payload" /\ calc.step = 1
  /\ calc.arg.expected_type = "bool"
  /\ calc.arg.payload.json = [isObjectWithValue |-> TRUE, value |-> StrV(<<"o","F","F">>)]
  /\ calc.out.parsed = [ok |-> TRUE, value |-> BoolV(FALSE)]


\* C12: the decimal text of an integer of the signed 32-bit range, sent as
\* the payload for an Int32 variable, decodes, and the decoded value encodes
\* to the same text.
C12_IntegerRoundTrip ==
  ( /\ calc.fn = "payload" /\ calc.arg.expected_type = "int"
    /\ ~calc.arg.payload.json.isObjectWithValue
    /\ calc.arg.payload.bytes \in INT_TEXTS )
  => /\ calc.step >= 1 => calc.out.parsed.ok
     /\ calc.step = 2 => calc.out.text = calc.arg.payload.bytes

\* C12 witness: "-2147483647" has been decoded and encoded again.
C12_Witness ==
  /\ calc.fn = "payload" /\ calc.step = 2
  /\ calc.arg.expected_type = "int"
  /\ calc.arg.payload = BarePayload(<<"-","2","1","4","7","4","8","3","6","4","7">>)
  /\ calc.out.text = <<"-","2","1","4","7","4","8","3","6","4","7">>


\* C13: for every root and every set of names, two different names have
\* different telemetry topics and different control topics, and the inverse
\* map leads from the control topic of a name back to that name.
C13_TopicsInjective ==
  (calc.fn = "topics" /\ calc.step = 1)
  => LET names == {calc.arg.keys[i] : i \in 1..Len(calc.arg.keys)} IN
     /\ DOMAIN calc.out.telemetry_topics = names
     /\ DOMAIN calc.out.control_topics = names
     /\ \A n1 \in names : \A n2 \in names \ {n1} :
          /\ calc.out.telemetry_topics[n1] # calc.out.telemetry_topics[n2]
          /\ calc.out.control_topics[n1] # calc.out.control_topics[n2]
     /\ \A n \in names :
          /\ calc.out.control_topics[n] \in DOMAIN calc.out.topic_to_name
          /\ calc.out.topic_to_name[calc.out.control_topics[n]] = n

\* C13 witness: the maps have been built for the root plant/opc/cmd and names
\* that contain the control-topic infix, and the inverse map leads back to S1.
C13_Witness ==
  /\ calc.fn = "topics" /\ calc.step = 1
  /\ calc.arg = [root |-> "plant/opc/cmd",
                 keys |-> <<"S1", "opc/cmd/S1", "S1/opc/cmd/S1">>]
  /\ calc.out.topic_to_name["plant/opc/cmd/opc/cmd/S1"] = "S1"


\* The online status message.
OnlineStatus ==
  [topic |-> "imhotep/status", payload |-> [state |-> "online"], qos |-> 1,
   retain |-> TRUE, by |-> "on_connect", ref |-> 0]

\* C14: the step in which a connect succeeds, the first one or a later one,
\* makes one subscribe call for the control topics of all names and then one
\* retained publish of the online status.
C14_SubscribeAndOnlineOnConnect ==
  [][ (mq = "tcp" /\ mq' = "session")
      => /\ Len(mqttSubs') = Len(mqttSubs) + 1
         /\ mqttSubs'[Len(mqttSubs')].subs =
              {[topic |-> "imhotep/opc/cmd/" \o n, qos |-> 1] : n \in Names}
         /\ published' = Append(published, OnlineStatus)
         /\ mqttSubs'[Len(mqttSubs')].published < Len(published') ]_vars

\* C14 witness: the connection was lost and a later connect has succeeded.
C14_Witness ==
  /\ connects >= 2
  /\ Len(mqttSubs) >= 2
  /\ mq = "session"
  /\ published[Len(published)] = OnlineStatus


\* C15: start() does not return into the keep-alive loop when the MQTT
\* connect or the OPC UA connect has failed while it ran: neither a connect
\* call that raised nor a connect the broker has refused is followed by the
\* running state.
C15_ConnectFailureIsFatal ==
  [][ (pc # "running" /\ pc' = "running")
      => /\ \A j \in 1..Len(startLog) :
              startLog[j].call \in {"mqtt_connect", "opc_connect"} => startLog[j].ok
         /\ mq # "refused" ]_vars


\* The unsubscribe and session-disconnect calls of the bridge's stop(), in order.
BridgeTeardownCalls ==
  SelectSeq(stopLog, LAMBDA e : e.call \in {"unsubscribe", "opc_disconnect"})
\* The same for the standalone client's finally clause, without the outcomes.
ClientTeardownCalls ==
  LET calls == SelectSeq(cli.log, LAMBDA e : e.call \in {"unsubscribe", "disconnect"})
  IN  [i \in 1..Len(calls) |-> <<calls[i].call, calls[i].arg>>]
\* stop() of the bridge has left its outer try body.
BridgeTornDown == pc \in {"stop_publish", "stop_mqtt_disconnect", "done"}
\* The finally clause of the client's main() has run to its end.
ClientTornDown == cli.pc = "done" /\ cli.sub

\* C16: when the teardown has run, an unsubscribe has been attempted for
\* every monitored-item handle created at startup, one by one in their order
\* and once each, and after them the session disconnect, whichever of the
\* unsubscribes failed; in the bridge's stop() and in the standalone
\* client's finally clause.
C16_TeardownUnsubscribesEveryHandle ==
  /\ BridgeTornDown =>
       BridgeTeardownCalls =
         [i \in 1..Len(sub_handles) |-> StopCall("unsubscribe", sub_handles[i])]
           \o <<StopCall("opc_disconnect", 0)>>
  /\ ClientTornDown =>
       ClientTeardownCalls =
         [i \in 1..Len(cli.handles) |-> <<"unsubscribe", cli.nodes[cli.handles[i]]>>]
           \o << <<"disconnect", "">> >>
\* Both scripts have been torn down with every handle created; in each the
\* unsubscribe of the first handle failed (in the bridge the item is still
\* monitored), and the later unsubscribe and the disconnect were attempted.
C16_Witness ==
  /\ pc = "done" /\ Len(sub_handles) = NumNodes
  /\ sub_handles[1] \in monitored
  /\ Len(BridgeTeardownCalls) = NumNodes + 1
  /\ cli.pc = "done" /\ Len(cli.handles) = NumNodes
  /\ \E i \in 1..Len(cli.log) :
       /\ cli.log[i].call = "unsubscribe" /\ ~cli.log[i].ok
       /\ cli.log[i].arg = cli.nodes[cli.handles[1]]
       /\ \E j \in (i+1)..Len(cli.log) : cli.log[j].call = "unsubscribe"
       /\ \E j \in (i+1)..Len(cli.log) : cli.log[j].call = "disconnect"

\* C17: a message on the control topic of a name whose node handle is not
\* resolved when it arrives makes no set_value call and is dropped with the
\* "node not ready" diagnostic; every set_value call is for a name whose
\* get_node call has returned.
C17_NoWriteBeforeResolved ==
  /\ \A i \in 1..Len(delivered) : \A n \in Names :
       (delivered[i].topic = "imhotep/opc/cmd/" \o n /\ ~delivered[i].ready)
       => /\ WriteIndexes(i) = {}
          /\ \A k \in DiagIndexes(i) : diag[k].what = "node not ready"
          /\ DiagIndexes(i) # {}
  /\ \A k \in 1..Len(writes) :
       \E j \in 1..Len(startLog) :
         /\ startLog[j].call = "get_node" /\ startLog[j].ok
         /\ writes[k].node = NidOf(startLog[j].arg)
         /\ delivered[writes[k].msg].topic = "imhotep/opc/cmd/" \o startLog[j].arg

\* C17 witness: {"value": 5} for ActNo arrived before get_node had returned
\* for ActNo, and was dropped.
C17_Witness ==
  \E i \in 1..Len(delivered) :
    /\ delivered[i] = [topic |-> "imhotep/opc/cmd/ActNo", payload |-> P_json5,
                       ready |-> FALSE]
    /\ WriteIndexes(i) = {}
    /\ \E k \in DiagIndexes(i) : diag[k].what = "node not ready"

\* C18: on each telemetry topic the snapshot message comes before every
\* change-notification message.
C18_SnapshotBeforeNotifications ==
  \A k1 \in 1..Len(published) : \A k2 \in 1..Len(published) :
    ( /\ k1 < k2
      /\ published[k1].by = "datachange_notification"
      /\ published[k2].by = "snapshot" )
    => published[k1].topic # published[k2].topic

\* C19: the offline status stop() publishes is the last publish call.
C19_NothingAfterOffline ==
  \A k \in 1..Len(published) :
    published[k].by = "stop" => k = Len(published)

\* C20: a step that subscribes to the control topics or publishes the online
\* status is the step of a connect callback that reports success.
C20_OnlineOnlyOnSuccess ==
  [][ ( \/ mqttSubs' # mqttSubs
        \/ /\ Len(published') > Len(published)
           /\ published'[Len(published')].payload = [state |-> "online"] )
      => mq' = "session" ]_vars

\* The ts member a Change Event is to carry for the notified DataValue n.
TsDue(n) ==
  CASE n.ServerTimestamp # NoneV -> isoformat(n.ServerTimestamp)
    [] n.ServerTimestamp = NoneV /\ n.SourceTimestamp # NoneV
         -> isoformat(n.SourceTimestamp)
    [] n.ServerTimestamp = NoneV /\ n.SourceTimestamp = NoneV -> NoneV

\* C21: the telemetry payload published for a change notification carries as
\* ts the server timestamp of the notified DataValue when it has one,
\* otherwise its source timestamp, and null when it has neither.
C21_TsServerThenSourceThenNull ==
  \A k \in 1..Len(published) :
    published[k].by = "datachange_notification" =>
      /\ published[k].ref \in 1..Len(notified)
      /\ published[k].payload.ts = TsDue(notified[published[k].ref])
\* C21 witness: one notification with both timestamps, the source one being
\* the later, was published with the server timestamp, and one with the source
\* timestamp alone was published with the source timestamp.
C21_Witness ==
  /\ \E k \in 1..Len(published) :
       /\ published[k].by = "datachange_notification"
       /\ notified[published[k].ref].ServerTimestamp = IntV(1)
       /\ notified[published[k].ref].SourceTimestamp = IntV(2)
       /\ published[k].payload.ts = StrV(<<"2025-01-01T00:00:0", "1">>)
  /\ \E k \in 1..Len(published) :
       /\ published[k].by = "datachange_notification"
       /\ notified[published[k].ref].ServerTimestamp = NoneV
       /\ notified[published[k].ref].SourceTimestamp = IntV(2)
       /\ published[k].payload.ts = StrV(<<"2025-01-01T00:00:0", "2">>)

\* The set lines whose name is none of the configured names (names are
\* case-sensitive), and those whose value is not a value of the declared kind
\* (ActNo is an integer, AcknFault a Boolean).
SET_UNKNOWN_NAME ==
  { <<W_set, <<"N","o","p","e">>, <<"1">>>>, <<W_set, <<"a","c","t","n","o">>, <<"5">>>> }
SET_UNPARSABLE ==
  { <<W_set, <<"A","c","t","N","o">>, <<"a","b","c">>>>, <<W_set, <<"A","c","t","N","o">>, <<"1",".","5">>>>,
    <<W_set, <<"A","c","t","N","o">>, <<"1">>, <<"0">>>>,
    <<W_set, <<"A","c","k","n","F","a","u","l","t">>, <<"2">>>>, <<W_set, <<"A","c","k","n","F","a","u","l","t">>, <<"o","n">>, <<"o","f","f">>>> }
\* What the step added to the history of the client's calls and prints.
LogAdded == SubSeq(cli'.log, Len(cli.log) + 1, Len(cli'.log))
\* The step handles one command line.
CommandStep == cli'.cmds = cli.cmds + 1
\* The line is one of the claim's cases: a set that must not write, or a
\* read or write the server rejected.
RejectedIn(seg) ==
  \E k \in 1..Len(seg) : seg[k].call \in {"get_value", "set_value"} /\ ~seg[k].ok
FailureCase ==
  \/ cli'.parts \in SET_UNKNOWN_NAME \cup SET_UNPARSABLE
  \/ RejectedIn(LogAdded)

\* C22: in the standalone client, the step that handles a set for an unknown
\* name or with a value that does not parse makes no OPC UA call and prints
\* why; every read or write the server rejects is followed by the print of its
\* error; and after each such step the command loop is waiting for the next
\* line with the session connected and the subscription and its monitored
\* items untouched.
C22_ClientFailuresAreNotFatal ==
  [][ CommandStep =>
      /\ cli'.parts \in SET_UNKNOWN_NAME =>
           LogAdded = <<ClientCall("print", "Unknown node", TRUE)>>
      /\ cli'.parts \in SET_UNPARSABLE =>
           LogAdded = <<ClientCall("print", "Parse error", TRUE)>>
      /\ \A k \in 1..Len(LogAdded) :
           /\ (LogAdded[k].call = "set_value" /\ ~LogAdded[k].ok) =>
                /\ k < Len(LogAdded)
                /\ LogAdded[k + 1] = ClientCall("print", "Write error", TRUE)
           /\ (LogAdded[k].call = "get_value" /\ ~LogAdded[k].ok) =>
                /\ k < Len(LogAdded)
                /\ LogAdded[k + 1] = ClientCall("print", "read error", TRUE)
      /\ FailureCase =>
           /\ cli'.pc = "command"
           /\ cli'.connected /\ cli'.sub
           /\ cli'.handles = cli.handles /\ cli'.monitored = cli.monitored
    ]_vars
\* C22 witness: a write to ActNo was rejected and reported, then a set for an
\* unknown name was typed; the loop is waiting for the next line and the
\* session is connected, with no write but the rejected one.
C22_Witness ==
  /\ cli.pc = "command" /\ cli.connected /\ cli.cmds = 2
  /\ cli.parts \in SET_UNKNOWN_NAME
  /\ Len(cli.log) >= 3
  /\ cli.log[Len(cli.log) - 2].call = "set_value"
  /\ ~cli.log[Len(cli.log) - 2].ok
  /\ cli.log[Len(cli.log) - 1] = ClientCall("print", "Write error", TRUE)
  /\ cli.log[Len(cli.log)] = ClientCall("print", "Unknown node", TRUE)
  /\ Len(SelectSeq(cli.log, LAMBDA e : e.call = "set_value")) = 1

====
